---- MODULE Spec2Model ----
(***************************************************************************)
(* Workout session timer of pstconv (src/src/hooks/useTimer.ts).           *)
(*                                                                         *)
(* The hook keeps its state in a reducer (timerReducer) and advances the   *)
(* phase from a passive effect that runs after a render committed a state  *)
(* with timeRemaining = 0 and isRunning.  A render caused by the interval  *)
(* callback (TICK) has its passive effects deferred: `pending` is TRUE     *)
(* between that commit and the flush of its effects, and a user handler    *)
(* (a discrete event) may run in between.  A render caused by a user       *)
(* handler flushes its effects synchronously, so a user operation runs to  *)
(* quiescence in one step.                                                 *)
(***************************************************************************)
EXTENDS Integers, Sequences, FiniteSets, TLC

\* ------------------------------------------------------------------ bounds
MaxLen == 3      \* longest exercise plan
MaxLog == 7      \* phase-change notifications kept in phaseLog

\* src/src/constants/index.ts:7
PREP_TIME == 5

\* <<work, rest>> seconds an exercise may have (work >= 1, rest >= 0)
Durations == { <<1, 0>>, <<2, 1>> }

\* numbers of sets an exercise may have (sets >= 1)
SetCounts == { 1, 2 }

Exercise ==
  { [sets |-> s, work |-> d[1], rest |-> d[2]] : s \in SetCounts, d \in Durations }

Plans == UNION { [1..n -> Exercise] : n \in 0..MaxLen }

\* the plans the caller may pass next: no workout selected, or the current
\* plan with its first exercise removed or one exercise added
NextPlans(ex) ==
  { << >> }
    \cup (IF Len(ex) > 0 THEN { Tail(ex) } ELSE { })
    \cup (IF Len(ex) < MaxLen THEN { Append(ex, e) : e \in Exercise } ELSE { })

TimerPhase == { "IDLE", "PREP", "WORK", "REST", "COMPLETE" }

\* ------------------------------------------------------------- the reducer
initialState ==
  [ phase |-> "IDLE", timeRemaining |-> 0, currentSet |-> 0, totalSets |-> 0,
    currentExerciseIndex |-> 0, totalExercises |-> 0, workTime |-> 0,
    restTime |-> 0, isRunning |-> FALSE ]

Max(a, b) == IF a >= b THEN a ELSE b
Min(a, b) == IF a <= b THEN a ELSE b

\* Array.prototype.slice(index): the elements from 0-based index to the end
Slice(ex, index) == SubSeq(ex, index + 1, Len(ex))

\* mutant: INIT spreads the current state, not initialState
ReduceINIT_SpreadsState(state, exercises) ==
  IF Len(exercises) = 0 THEN initialState
  ELSE [ state EXCEPT
           !.phase = "IDLE",
           !.totalExercises = Len(exercises),
           !.currentExerciseIndex = 0,
           !.currentSet = 1,
           !.totalSets = exercises[1].sets,
           !.workTime = exercises[1].work,
           !.restTime = exercises[1].rest,
           !.timeRemaining = PREP_TIME ]

ReduceINIT(state, exercises) ==
  IF Len(exercises) = 0 THEN initialState
  ELSE [ initialState EXCEPT
           !.phase = "IDLE",
           !.totalExercises = Len(exercises),
           !.currentExerciseIndex = 0,
           !.currentSet = 1,
           !.totalSets = exercises[1].sets,
           !.workTime = exercises[1].work,
           !.restTime = exercises[1].rest,
           !.timeRemaining = PREP_TIME ]

\* mutant: START counts down the work duration
ReduceSTART_WorkTime(state) ==
  [ state EXCEPT !.phase = "PREP", !.timeRemaining = state.workTime, !.isRunning = TRUE ]

ReduceSTART(state) ==
  [ state EXCEPT !.phase = "PREP", !.timeRemaining = PREP_TIME, !.isRunning = TRUE ]

ReducePAUSE(state) == [ state EXCEPT !.isRunning = FALSE ]

ReduceRESUME(state) == [ state EXCEPT !.isRunning = TRUE ]

\* mutant: the decrement is not floored at 0
ReduceTICK_NoFloor(state) ==
  IF ~state.isRunning THEN state
  ELSE [ state EXCEPT !.timeRemaining = state.timeRemaining - 1 ]

\* mutant: a TICK counts down whether the timer runs or not
ReduceTICK_Unguarded(state) ==
  [ state EXCEPT !.timeRemaining = Max(0, state.timeRemaining - 1) ]

ReduceTICK(state) ==
  IF ~state.isRunning THEN state
  ELSE [ state EXCEPT !.timeRemaining = Max(0, state.timeRemaining - 1) ]

ReduceNEXT_PHASE(state) ==
  CASE state.phase = "PREP" ->
         [ state EXCEPT !.phase = "WORK", !.timeRemaining = state.workTime ]
    [] state.phase = "WORK" ->
         IF state.currentSet < state.totalSets
         THEN [ state EXCEPT !.phase = "REST", !.timeRemaining = state.restTime ]
         ELSE [ state EXCEPT !.phase = "REST", !.timeRemaining = state.restTime ]
    [] OTHER -> state

\* mutant: the next set is timed with the rest duration
ReduceNEXT_SET_RestTime(state) ==
  [ state EXCEPT !.phase = "WORK",
                 !.currentSet = state.currentSet + 1,
                 !.timeRemaining = state.restTime ]

ReduceNEXT_SET(state) ==
  [ state EXCEPT !.phase = "WORK",
                 !.currentSet = state.currentSet + 1,
                 !.timeRemaining = state.workTime ]

\* mutant: the next exercise keeps the set counter of the one just finished
ReduceSET_EXERCISE_KeepSet(state, exercise, index, totalExercises) ==
  [ phase |-> "PREP", timeRemaining |-> PREP_TIME, currentExerciseIndex |-> index,
    totalExercises |-> totalExercises, currentSet |-> state.currentSet,
    totalSets |-> exercise.sets, workTime |-> exercise.work,
    restTime |-> exercise.rest, isRunning |-> TRUE ]

ReduceSET_EXERCISE(state, exercise, index, totalExercises) ==
  [ phase |-> "PREP", timeRemaining |-> PREP_TIME, currentExerciseIndex |-> index,
    totalExercises |-> totalExercises, currentSet |-> 1, totalSets |-> exercise.sets,
    workTime |-> exercise.work, restTime |-> exercise.rest, isRunning |-> TRUE ]

ReduceRESET(state) == initialState

\* mutant: COMPLETE leaves the timer running
ReduceCOMPLETE_Running(state) == [ state EXCEPT !.phase = "COMPLETE" ]

ReduceCOMPLETE(state) == [ state EXCEPT !.phase = "COMPLETE", !.isRunning = FALSE ]

timerReducer(state, action) ==
  CASE action.type = "INIT" -> ReduceINIT(state, action.exercises)
    [] action.type = "START" -> ReduceSTART(state)
    [] action.type = "PAUSE" -> ReducePAUSE(state)
    [] action.type = "RESUME" -> ReduceRESUME(state)
    [] action.type = "TICK" -> ReduceTICK(state)
    [] action.type = "NEXT_PHASE" -> ReduceNEXT_PHASE(state)
    [] action.type = "NEXT_SET" -> ReduceNEXT_SET(state)
    [] action.type = "NEXT_EXERCISE" -> state
    [] action.type = "SET_EXERCISE" ->
         ReduceSET_EXERCISE(state, action.exercise, action.index, action.totalExercises)
    [] action.type = "RESET" -> ReduceRESET(state)
    [] action.type = "COMPLETE" -> ReduceCOMPLETE(state)
    [] OTHER -> state

\* the reducer applied to a queue of dispatched actions, in dispatch order
RECURSIVE ReduceAll(_, _)
ReduceAll(actions, state) ==
  IF actions = << >> THEN state
  ELSE ReduceAll(Tail(actions), timerReducer(state, Head(actions)))

\* ------------------------------------------------------------------- state
VARIABLES
  state,         \* the reducer's TimerState
  exercisesRef,  \* exercisesRef.current: the plan given to the hook
  prevPhaseRef,  \* prevPhaseRef.current
  intervalRef,   \* TRUE iff the 1 s interval is set
  pending,       \* a committed render whose passive effects have not run yet
  emitted,       \* the notifications of the last step, in the order fired
  phaseLog,      \* onPhaseChange's new phases since the last START (first MaxLog)
  ticks,         \* TICKs dispatched since the last START (up to PREP_TIME + 1)
  base,          \* index given to the last accepted setExercise (0 after init/reset)
  clean          \* since a START made in IDLE, only ticks and effects happened

vars ==
  << state, exercisesRef, prevPhaseRef, intervalRef, pending, emitted, phaseLog,
     ticks, base, clean >>

\* The persisted-state container (src/src/hooks/useAudio.ts, usePersistedState)
VARIABLES
  stored,           \* localStorage[key]: << >> or << [date, value] >>
  liveValue,        \* the container's React state
  today,            \* the day getTodayDateString() returns
  dirty,            \* a render is committed or due whose effects have not run yet
  subscribed,       \* the interval and the visibility listener are installed
  resetAtMidnight,  \* the hook's parameter
  onResetThrows,    \* the onReset given to the hook throws
  onResetLog,       \* the calls of onReset since the load (first MaxRolls)
  liveOf,           \* the day the live value was started from the default or loaded for
  defaultDate       \* the date field of defaultValue, fixed when the module is evaluated

pvars ==
  << stored, liveValue, today, dirty, subscribed, resetAtMidnight, onResetThrows,
     onResetLog, liveOf,
     defaultDate >>

\* the value the caller gives as defaultValue: one object, always the same
DefaultValue == [ v |-> 0, isDefault |-> TRUE ]

\* the container while the timer is observed: nothing stored, nothing loaded
ContainerUnused ==
  /\ stored = << >>
  /\ liveValue = DefaultValue
  /\ today = 1
  /\ dirty = FALSE
  /\ subscribed = FALSE
  /\ resetAtMidnight = FALSE
  /\ onResetThrows = FALSE
  /\ onResetLog = << >>
  /\ liveOf = 1
  /\ defaultDate = 1

\* The application's archive of past days (src/src/contexts/AppContext.tsx)
VARIABLES
  history,       \* the 'stemmy-history' container: the HistoryRecords
  statsHistory,  \* stats.history: the workout log, [date, duration] entries
  prayers,       \* daily.prayers: the live prayer list
  cleaned        \* the cleanup & migration effect has run since the mount

avars == << history, statsHistory, prayers, cleaned >>

\* The archive while the timer or the container alone is studied.
ArchiveUnused ==
  /\ history = << >>
  /\ statsHistory = << >>
  /\ prayers = << >>
  /\ cleaned = FALSE

\* ---------------------------------------------------------- notifications
PhaseChangeEv(phase, prev) == [ ev |-> "phaseChange", phase |-> phase, prev |-> prev, n |-> 0 ]
ExerciseCompleteEv(index) == [ ev |-> "exerciseComplete", phase |-> "-", prev |-> "-", n |-> index ]
WorkoutCompleteEv == [ ev |-> "workoutComplete", phase |-> "-", prev |-> "-", n |-> 0 ]
TickEv(timeRemaining, phase) == [ ev |-> "tick", phase |-> phase, prev |-> "-", n |-> timeRemaining ]

\* ----------------------------------------------------------------- effects
NoEffect == [ dispatch |-> << >>, events |-> << >> ]

\* "Handle phase transitions": what the effect dispatches and which callbacks
\* it calls for the rendered state s, in call order
\* mutant: rest follows every work interval, the last one included
WorkBoundary_AlwaysRest(s) ==
  [ dispatch |-> << [type |-> "NEXT_PHASE"] >>, events |-> << >> ]

WorkBoundary(s) ==
  IF s.currentSet < s.totalSets
  THEN [ dispatch |-> << [type |-> "NEXT_PHASE"] >>, events |-> << >> ]
  ELSE IF s.currentExerciseIndex < s.totalExercises - 1
  THEN [ dispatch |-> << [type |-> "NEXT_PHASE"] >>, events |-> << >> ]
  ELSE [ dispatch |-> << [type |-> "COMPLETE"] >>, events |-> << WorkoutCompleteEv >> ]

\* mutant: exercise-completed carries the index of the exercise that starts
RestBoundary_NextIndex(s, ex) ==
  IF s.currentSet < s.totalSets
  THEN [ dispatch |-> << [type |-> "NEXT_SET"] >>, events |-> << >> ]
  ELSE IF s.currentExerciseIndex < s.totalExercises - 1
  THEN LET nextIndex == s.currentExerciseIndex + 1
       IN [ dispatch |-> << [ type |-> "SET_EXERCISE",
                              exercise |-> ex[nextIndex + 1],
                              index |-> nextIndex,
                              totalExercises |-> Len(ex) ] >>,
            events |-> << ExerciseCompleteEv(nextIndex) >> ]
  ELSE [ dispatch |-> << [type |-> "COMPLETE"] >>, events |-> << WorkoutCompleteEv >> ]

RestBoundary(s, ex) ==
  IF s.currentSet < s.totalSets
  THEN [ dispatch |-> << [type |-> "NEXT_SET"] >>, events |-> << >> ]
  ELSE IF s.currentExerciseIndex < s.totalExercises - 1
  THEN LET nextIndex == s.currentExerciseIndex + 1
       IN [ dispatch |-> << [ type |-> "SET_EXERCISE",
                              exercise |-> ex[nextIndex + 1],
                              index |-> nextIndex,
                              totalExercises |-> Len(ex) ] >>,
            events |-> << ExerciseCompleteEv(s.currentExerciseIndex) >> ]
  ELSE [ dispatch |-> << [type |-> "COMPLETE"] >>, events |-> << WorkoutCompleteEv >> ]

\* mutant: the switch has no case for REST
TransitionEffect_NoRestCase(s, ex) ==
  IF ~(s.timeRemaining = 0 /\ s.isRunning) THEN NoEffect
  ELSE CASE s.phase = "PREP" ->
              [ dispatch |-> << [type |-> "NEXT_PHASE"] >>, events |-> << >> ]
         [] s.phase = "WORK" -> WorkBoundary(s)
         [] OTHER -> NoEffect

TransitionEffect(s, ex) ==
  IF ~(s.timeRemaining = 0 /\ s.isRunning) THEN NoEffect
  ELSE CASE s.phase = "PREP" ->
              [ dispatch |-> << [type |-> "NEXT_PHASE"] >>, events |-> << >> ]
         [] s.phase = "WORK" -> WorkBoundary(s)
         [] s.phase = "REST" -> RestBoundary(s, ex)
         [] OTHER -> NoEffect

\* "Notify phase changes"
PhaseChangeEffect(s, prev) ==
  IF s.phase # prev THEN << PhaseChangeEv(s.phase, prev) >> ELSE << >>

\* "Notify ticks"
TickEffect(s) ==
  IF s.isRunning THEN << TickEv(s.timeRemaining, s.phase) >> ELSE << >>

LogPhase(log, s, prev) ==
  IF s.phase # prev /\ Len(log) < MaxLog THEN Append(log, s.phase) ELSE log

\* The hook's mutable parts as one record, for the effect flush
World ==
  [ state |-> state, prevPhaseRef |-> prevPhaseRef, intervalRef |-> intervalRef,
    phaseLog |-> phaseLog, emitted |-> << >> ]

\* mutant: the tick notification is the first effect of a flush
FlushWith_TickFirst(w, ex, queued) ==
  LET te == TransitionEffect(w.state, ex)
  IN [ state |-> ReduceAll(queued \o te.dispatch, w.state),
       prevPhaseRef |-> w.state.phase,
       intervalRef |-> w.state.isRunning,
       phaseLog |-> LogPhase(w.phaseLog, w.state, w.prevPhaseRef),
       emitted |-> w.emitted \o TickEffect(w.state) \o te.events
                     \o PhaseChangeEffect(w.state, w.prevPhaseRef) ]

\* One flush of the passive effects of the render that committed w.state, in
\* declaration order: interval, phase transition, phase-change notification,
\* tick notification.  `queued` are actions dispatched by a handler that ran
\* between the commit and this flush: the reducer sees them first.
FlushWith(w, ex, queued) ==
  LET te == TransitionEffect(w.state, ex)
  IN [ state |-> ReduceAll(queued \o te.dispatch, w.state),
       prevPhaseRef |-> w.state.phase,
       intervalRef |-> w.state.isRunning,
       phaseLog |-> LogPhase(w.phaseLog, w.state, w.prevPhaseRef),
       emitted |-> w.emitted \o te.events
                     \o PhaseChangeEffect(w.state, w.prevPhaseRef)
                     \o TickEffect(w.state) ]

\* Render and flush until an effect flush dispatches nothing
RECURSIVE Settle(_, _)
Settle(w, ex) ==
  IF TransitionEffect(w.state, ex).dispatch = << >>
  THEN FlushWith(w, ex, << >>)
  ELSE Settle(FlushWith(w, ex, << >>), ex)

\* A handler of a discrete event dispatching `actions`: the effects still
\* pending are flushed before the render, then the render's effects run
\* synchronously, to quiescence.
Handle(w0, actions, ex) ==
  LET w1 == IF pending THEN FlushWith(w0, ex, actions)
            ELSE [ w0 EXCEPT !.state = ReduceAll(actions, w0.state) ]
  IN Settle(w1, ex)

\* phaseLog and ticks observe a clean run only
Commit(w, isClean) ==
  /\ state' = w.state
  /\ prevPhaseRef' = w.prevPhaseRef
  /\ intervalRef' = w.intervalRef
  /\ emitted' = w.emitted
  /\ phaseLog' = IF isClean THEN w.phaseLog ELSE << >>
  /\ clean' = isClean

\* ------------------------------------------------------------- operations
\* Mount: the reducer starts at initialState and the [exercises] effect
\* stores the plan and dispatches INIT.
Init ==
  /\ exercisesRef \in Plans
  /\ state = ReduceINIT(initialState, exercisesRef)
  /\ prevPhaseRef = "IDLE"
  /\ intervalRef = FALSE
  /\ pending = FALSE
  /\ emitted = << >>
  /\ phaseLog = << >>
  /\ ticks = 0
  /\ base = 0
  /\ clean = FALSE
  /\ ContainerUnused
  /\ ArchiveUnused

\* init(exercises): the caller passes another plan; the [exercises] effect
\* runs first in the flush of that render.  The application selects a workout
\* between sessions, after reset() (App.tsx handleWorkoutExit).
ChangePlan(p) ==
  /\ ~pending
  /\ state.phase = "IDLE"
  /\ exercisesRef' = p
  /\ Commit(Settle(FlushWith(World, p, << [type |-> "INIT", exercises |-> p] >>), p),
            FALSE)
  /\ pending' = FALSE
  /\ base' = 0
  /\ ticks' = 0

DoStart ==
  /\ Commit(Handle([ World EXCEPT !.phaseLog = << >> ], << [type |-> "START"] >>,
                   exercisesRef), state.phase = "IDLE")
  /\ pending' = FALSE
  /\ ticks' = 0
  /\ UNCHANGED << exercisesRef, base >>

DoPause ==
  /\ Commit(Handle(World, << [type |-> "PAUSE"] >>, exercisesRef), FALSE)
  /\ pending' = FALSE
  /\ ticks' = 0
  /\ UNCHANGED << exercisesRef, base >>

DoResume ==
  /\ Commit(Handle(World, << [type |-> "RESUME"] >>, exercisesRef), FALSE)
  /\ pending' = FALSE
  /\ ticks' = 0
  /\ UNCHANGED << exercisesRef, base >>

Start == DoStart

Pause == DoPause

Resume == DoResume

\* mutant: toggle looks at isRunning before it looks at the phase
Toggle_RunningFirst ==
  IF state.isRunning THEN DoPause
  ELSE IF state.phase = "IDLE" THEN DoStart
  ELSE DoResume

\* toggle reads phase and isRunning of the render its closure belongs to
Toggle ==
  IF state.phase = "IDLE" THEN DoStart
  ELSE IF state.isRunning THEN DoPause
  ELSE DoResume

Reset ==
  /\ Commit(Handle(World, << [type |-> "RESET"],
                             [type |-> "INIT", exercises |-> exercisesRef] >>,
                   exercisesRef), FALSE)
  /\ pending' = FALSE
  /\ base' = 0
  /\ ticks' = 0
  /\ UNCHANGED exercisesRef

\* mutant: the index just past the plan's end is accepted
InRange_OffByOne(index, ex) == index >= 0 /\ index <= Len(ex)

\* setExercise's bounds check
InRange(index, ex) == index >= 0 /\ index < Len(ex)

SetExercise(index) ==
  IF InRange(index, exercisesRef)
  THEN /\ Commit(Handle(World, << [type |-> "RESET"],
                                  [type |-> "INIT",
                                   exercises |-> Slice(exercisesRef, index)] >>,
                        exercisesRef), FALSE)
       /\ pending' = FALSE
       /\ base' = index
       /\ ticks' = 0
       /\ UNCHANGED exercisesRef
  ELSE /\ emitted' = << >>
       /\ UNCHANGED << state, exercisesRef, prevPhaseRef, intervalRef, pending,
                       phaseLog, ticks, base, clean >>

\* The interval callback: one pulse.  Its render is not a discrete event, so
\* the effects of the state it commits are deferred (pending).
Tick ==
  /\ intervalRef
  /\ ~pending
  /\ state' = timerReducer(state, [type |-> "TICK"])
  /\ pending' = TRUE
  /\ emitted' = << >>
  /\ ticks' = IF clean THEN Min(ticks + 1, PREP_TIME + 1) ELSE 0
  /\ UNCHANGED << exercisesRef, prevPhaseRef, intervalRef, phaseLog, base, clean >>

\* The deferred flush of the passive effects of the last committed render
RunEffects ==
  /\ pending
  /\ Commit(FlushWith(World, exercisesRef, << >>), clean)
  /\ pending' = (TransitionEffect(state, exercisesRef).dispatch # << >>)
  /\ UNCHANGED << exercisesRef, ticks, base >>

Next ==
  \/ (\E p \in NextPlans(exercisesRef) : ChangePlan(p)) /\ UNCHANGED << pvars, avars >>
  \/ Start /\ UNCHANGED << pvars, avars >>
  \/ Pause /\ UNCHANGED << pvars, avars >>
  \/ Resume /\ UNCHANGED << pvars, avars >>
  \/ Toggle /\ UNCHANGED << pvars, avars >>
  \/ Reset /\ UNCHANGED << pvars, avars >>
  \/ (\E index \in -1..MaxLen : SetExercise(index)) /\ UNCHANGED << pvars, avars >>
  \/ Tick /\ UNCHANGED << pvars, avars >>
  \/ RunEffects /\ UNCHANGED << pvars, avars >>

Spec == Init /\ [][Next]_<< vars, pvars, avars >>

\* A session left to itself: start() on the idle timer, then only the
\* interval's ticks and the effects of the renders.  The interval fires every
\* second for as long as it is set, and React runs the passive effects of
\* every render it commits: both are weakly fair.
SessionNext ==
  \/ (state.phase = "IDLE" /\ Start) /\ UNCHANGED << pvars, avars >>
  \/ Tick /\ UNCHANGED << pvars, avars >>
  \/ RunEffects /\ UNCHANGED << pvars, avars >>

SessionSpec ==
  /\ Init
  /\ [][SessionNext]_<< vars, pvars, avars >>
  /\ WF_vars(Tick)
  /\ WF_vars(RunEffects)

TypeOK ==
  /\ state.phase \in TimerPhase
  /\ state.isRunning \in BOOLEAN
  /\ exercisesRef \in Plans
  /\ Len(phaseLog) <= MaxLog

\* ---------------------------------------------------- the reducer on its own
\* The reducer and the transition effect with every dispatch the hook makes
\* delivered in any state and in any order: a TICK arrives whatever isRunning
\* is.  Here `ticks` counts the TICKs since the last other dispatch.
DispatchTo(actions, isTick) ==
  /\ state' = ReduceAll(actions, state)
  /\ ticks' = IF isTick THEN Min(ticks + 1, PREP_TIME + 1) ELSE 0
  /\ UNCHANGED << exercisesRef, prevPhaseRef, intervalRef, pending, emitted,
                  phaseLog, base, clean >>
  /\ UNCHANGED << pvars, avars >>

DispatchTICK == DispatchTo(<< [type |-> "TICK"] >>, TRUE)

DispatchSTART == DispatchTo(<< [type |-> "START"] >>, FALSE)

DispatchPAUSE == DispatchTo(<< [type |-> "PAUSE"] >>, FALSE)

DispatchRESUME == DispatchTo(<< [type |-> "RESUME"] >>, FALSE)

DispatchRESET ==
  DispatchTo(<< [type |-> "RESET"], [type |-> "INIT", exercises |-> exercisesRef] >>,
             FALSE)

\* what the transition effect dispatches for the current state
DispatchBoundary ==
  /\ TransitionEffect(state, exercisesRef).dispatch # << >>
  /\ DispatchTo(TransitionEffect(state, exercisesRef).dispatch, FALSE)

ReducerNext ==
  \/ DispatchTICK
  \/ DispatchSTART
  \/ DispatchPAUSE
  \/ DispatchRESUME
  \/ DispatchRESET
  \/ DispatchBoundary

ReducerSpec == Init /\ [][ReducerNext]_<< vars, pvars, avars >>

\* ------------------------------------------- the persisted-state container
\* usePersistedState(key, defaultValue, resetAtMidnight, onReset), as the
\* application uses it for the daily state ('stemmy-daily', DEFAULT_DAILY,
\* true, saveDailyProgress).  A value is [v, isDefault]: v is its content
\* (0 is the content of defaultValue), isDefault says that it is the very
\* object defaultValue, which is what React compares when it is set again.
MaxDay == 3     \* the days are 1..MaxDay
MaxValue == 2   \* the contents are 0..MaxValue
MaxRolls == 3   \* onResetLog keeps the first MaxRolls calls

Days == 1..MaxDay

Contents == 0..MaxValue

\* JSON.stringify(value): the text carries the content, not the identity.
Stringify(x) == x.v

\* JSON.parse(text): a new object with that content.
Parse(text) == [ v |-> text, isDefault |-> FALSE ]

\* The envelope written to localStorage.
PersistedData(date, value) == [ date |-> date, value |-> Stringify(value) ]

\* A stored text that JSON.parse rejects.
CorruptText == [ text |-> "not JSON" ]

\* JSON.parse(stored) returns.
Parseable(text) == "date" \in DOMAIN text

Envelopes(day) ==
  { << >>, << CorruptText >> } \cup
  { << [ date |-> d, value |-> c ] >> : d \in 1..day, c \in Contents }

\* parsed.date !== today, for the text read from localStorage.
IsStale(st, day) == st # << >> /\ Parseable(st[1]) /\ st[1].date # day

\* A call onReset(staleValue, staleDate); by tells the load from a check.
ResetCall(value, date, by) == [ value |-> value, date |-> date, by |-> by ]

LogReset(log, call) == IF Len(log) < MaxRolls THEN Append(log, call) ELSE log

Load_KeepsStale(st, day, ram) ==
  IF st = << >> \/ ~Parseable(st[1])
    THEN [ value |-> DefaultValue, calls |-> << >>, day |-> day ]
    ELSE [ value |-> Parse(st[1].value), calls |-> << >>, day |-> st[1].date ]

Load_IgnoresFlag(st, day, ram) ==
  IF st = << >> \/ ~Parseable(st[1])
    THEN [ value |-> DefaultValue, calls |-> << >>, day |-> day ]
    ELSE IF st[1].date # day
      THEN [ value |-> DefaultValue,
             calls |-> << ResetCall(st[1].value, st[1].date, "load") >>,
             day |-> day ]
      ELSE [ value |-> Parse(st[1].value), calls |-> << >>, day |-> st[1].date ]

\* The useState initializer: the value the container starts with, the calls
\* of onReset it makes (an exception of onReset is caught and logged), and
\* the day the value belongs to.  Nothing stored, or a text that JSON.parse
\* rejects, gives the default.
Load(st, day, ram) ==
  IF st = << >> \/ ~Parseable(st[1])
    THEN [ value |-> DefaultValue, calls |-> << >>, day |-> day ]
    ELSE IF ram /\ st[1].date # day
      THEN [ value |-> DefaultValue,
             calls |-> << ResetCall(st[1].value, st[1].date, "load") >>,
             day |-> day ]
      ELSE [ value |-> Parse(st[1].value), calls |-> << >>, day |-> st[1].date ]

\* The timer is not mounted while the container is studied.
TimerUnused ==
  /\ exercisesRef = << >>
  /\ state = initialState
  /\ prevPhaseRef = "IDLE"
  /\ intervalRef = FALSE
  /\ pending = FALSE
  /\ emitted = << >>
  /\ phaseLog = << >>
  /\ ticks = 0
  /\ base = 0
  /\ clean = FALSE

\* Mount on some day, over whatever an earlier session left in localStorage:
\* the initializer has run, the effects of the first render have not.
PersistInit ==
  /\ TimerUnused
  /\ ArchiveUnused
  /\ today \in Days
  /\ stored \in Envelopes(today)
  /\ resetAtMidnight \in BOOLEAN
  /\ onResetThrows \in BOOLEAN
  /\ liveValue = Load(stored, today, resetAtMidnight).value
  /\ onResetLog = Load(stored, today, resetAtMidnight).calls
  /\ liveOf = Load(stored, today, resetAtMidnight).day
  /\ defaultDate = today
  /\ dirty = TRUE
  /\ subscribed = FALSE

\* mutant: the second effect installs the checks whatever resetAtMidnight is
PersistEffect_AlwaysSubscribes ==
  /\ dirty
  /\ stored' = << PersistedData(today, liveValue) >>
  /\ dirty' = FALSE
  /\ subscribed' = TRUE
  /\ UNCHANGED << liveValue, today, resetAtMidnight, onResetThrows, onResetLog, liveOf,
                  defaultDate >>

PersistEffect_KeepsDate ==
  /\ dirty
  /\ stored' = << PersistedData(IF IsStale(stored, today) THEN stored[1].date ELSE today, liveValue) >>
  /\ dirty' = FALSE
  /\ subscribed' = resetAtMidnight
  /\ UNCHANGED << liveValue, today, resetAtMidnight, onResetThrows, onResetLog, liveOf,
                  defaultDate >>

\* The passive effects of the last render: the [key, state] effect writes
\* the envelope, dated at the time of the write; on mount the second effect
\* installs the interval and the listener, unless resetAtMidnight is false.
PersistEffect ==
  /\ dirty
  /\ stored' = << PersistedData(today, liveValue) >>
  /\ dirty' = FALSE
  /\ subscribed' = resetAtMidnight
  /\ UNCHANGED << liveValue, today, resetAtMidnight, onResetThrows, onResetLog, liveOf,
                  defaultDate >>

\* setState(value) from a handler of the user (toggleTask, addWater, ...):
\* React renders and runs the effects before the handler's event is over, so
\* the new value is in localStorage when the step ends.  A value made from
\* the default belongs to the day it is made on.
SetState(c) ==
  /\ liveValue' = [ v |-> c, isDefault |-> FALSE ]
  /\ stored' = << PersistedData(today, liveValue') >>
  /\ dirty' = FALSE
  /\ subscribed' = resetAtMidnight
  /\ liveOf' = IF liveValue.v = 0 THEN today ELSE liveOf
  /\ UNCHANGED << today, resetAtMidnight, onResetThrows, onResetLog, defaultDate >>

ManualReset_Rollover ==
  /\ liveValue' = DefaultValue
  /\ stored' = << PersistedData(today, DefaultValue) >>
  /\ subscribed' = resetAtMidnight
  /\ dirty' = FALSE
  /\ liveOf' = today
  /\ onResetLog' = IF IsStale(stored, today)
                     THEN LogReset(onResetLog, ResetCall(stored[1].value, stored[1].date, "reset"))
                     ELSE onResetLog
  /\ UNCHANGED << today, resetAtMidnight, onResetThrows, defaultDate >>

\* reset(): setState(defaultValue) from a handler of the user.  Setting the
\* object the state already is renders nothing, so nothing is written,
\* except what an earlier render still owes.
ManualReset ==
  /\ liveValue' = DefaultValue
  /\ IF liveValue.isDefault /\ ~dirty
       THEN UNCHANGED << stored, subscribed >>
       ELSE /\ stored' = << PersistedData(today, DefaultValue) >>
            /\ subscribed' = resetAtMidnight
  /\ dirty' = FALSE
  /\ liveOf' = today
  /\ UNCHANGED << today, resetAtMidnight, onResetThrows, onResetLog, defaultDate >>

\* checkMidnight(): reads the envelope; when its date is not today's it
\* calls onReset(parsed.value, parsed.date) and then setState(defaultValue).
\* An exception of onReset leaves the function through the catch, before
\* setState.  The render that setState asks for is not made inside the
\* timer's or the listener's task, and none is made when the state already
\* is defaultValue.
CheckMidnight(by) ==
  /\ subscribed
  /\ IF IsStale(stored, today)
       THEN /\ onResetLog' = LogReset(onResetLog, ResetCall(stored[1].value, stored[1].date, by))
            /\ IF onResetThrows
                 THEN UNCHANGED << liveValue, dirty, liveOf >>
                 ELSE /\ liveValue' = DefaultValue
                      /\ dirty' = (dirty \/ ~liveValue.isDefault)
                      /\ liveOf' = today
       ELSE UNCHANGED << onResetLog, liveValue, dirty, liveOf >>
  /\ UNCHANGED << stored, today, subscribed, resetAtMidnight, onResetThrows, defaultDate >>

\* The 60 s interval fires.
IntervalCheck == CheckMidnight("interval")

\* visibilitychange: the check runs when the document became visible.
HandleVisibility(visible) ==
  /\ subscribed
  /\ IF visible
       THEN CheckMidnight("visibility")
       ELSE UNCHANGED pvars

\* The calendar day ends.
Midnight ==
  /\ today < MaxDay
  /\ today' = today + 1
  /\ UNCHANGED << stored, liveValue, dirty, subscribed, resetAtMidnight, onResetThrows,
                  onResetLog, liveOf, defaultDate >>

\* The page is closed and opened again: effects not yet run are lost, the
\* module is evaluated anew and the initializer runs on what localStorage
\* holds.
Reload ==
  /\ liveValue' = Load(stored, today, resetAtMidnight).value
  /\ onResetLog' = Load(stored, today, resetAtMidnight).calls
  /\ liveOf' = Load(stored, today, resetAtMidnight).day
  /\ defaultDate' = today
  /\ dirty' = TRUE
  /\ subscribed' = FALSE
  /\ UNCHANGED << stored, today, resetAtMidnight, onResetThrows >>

PersistNext ==
  \/ PersistEffect /\ UNCHANGED << vars, avars >>
  \/ (\E c \in Contents \ { 0 } : SetState(c)) /\ UNCHANGED << vars, avars >>
  \/ ManualReset /\ UNCHANGED << vars, avars >>
  \/ IntervalCheck /\ UNCHANGED << vars, avars >>
  \/ (\E visible \in BOOLEAN : HandleVisibility(visible)) /\ UNCHANGED << vars, avars >>
  \/ Midnight /\ UNCHANGED << vars, avars >>
  \/ Reload /\ UNCHANGED << vars, avars >>

PersistSpec == PersistInit /\ [][PersistNext]_<< vars, pvars, avars >>

\* ------------------------------------------------ the archive of past days
\* saveDailyProgress, the onReset of the daily container, and the prayer
\* list of the daily state (src/src/contexts/AppContext.tsx).
MaxWorkouts == 2   \* entries in the workout log
MaxPrayers == 3    \* entries in a stored prayer list
MaxStale == 2      \* entries in the prayer list of a stale daily state

\* Dates are strings "YYYY-MM-DD"; the model keeps the two digits of the day
\* and lets the days run from the 9th, so that the strings pass from 09 to 10.
DayOffset == 8

\* new Date().toISOString().split('T')[0]
ToISODate(d) == << (d + DayOffset) \div 10, (d + DayOffset) % 10 >>

DateStrings == { ToISODate(d) : d \in Days }

TimesOfDay == { 7 }

\* new Date().toISOString(): the date followed by the time of day.
ToISOString(d, t) == ToISODate(d) \o << t >>

\* s.startsWith(prefix)
StartsWith(s, prefix) ==
  Len(prefix) <= Len(s) /\ SubSeq(s, 1, Len(prefix)) = prefix

\* a.localeCompare(b) for strings of digits: negative, zero or positive.
LocaleCompare(a, b) ==
  LET n == IF Len(a) < Len(b) THEN Len(a) ELSE Len(b)
      differ == { i \in 1..n : a[i] # b[i] }
  IN IF differ = { }
       THEN Len(a) - Len(b)
       ELSE LET i == CHOOSE i \in differ : \A j \in differ : i <= j
            IN IF a[i] < b[i] THEN -1 ELSE 1

SeqsUpTo(S, n) == UNION { [ 1..m -> S ] : m \in 0..n }

\* Math.round(n / d) for naturals: halves go up.
RoundDiv(n, d) == (2 * n + d) \div (2 * d)

WorkoutDurations == { 2, 3 }

WorkoutHistoryItem ==
  [ date : { ToISOString(d, t) : d \in Days, t \in TimesOfDay }, duration : WorkoutDurations ]

\* stats.history as recordWorkout leaves it: appended in the order of time.
WorkoutLogs ==
  { l \in SeqsUpTo(WorkoutHistoryItem, MaxWorkouts) :
      \A i, j \in 1..Len(l) : i < j => LocaleCompare(l[i].date, l[j].date) <= 0 }

PrayerIds == { "fajr", "asr" }

PrayerTypes == { "alone", "jamat" }

\* An entry of a prayer list: a PrayerStatus object, or the bare string of
\* the legacy format, whose text is kept in id.
PrayerStatus(id, type, completedAt) ==
  [ kind |-> "object", id |-> id, type |-> type, completedAt |-> completedAt ]

LegacyPrayer(s) == [ kind |-> "string", id |-> s, type |-> "", completedAt |-> "" ]

\* typeof p === 'string'
IsString(p) == p.kind = "string"

\* p.id, undefined on a string
IdOf(p) == IF IsString(p) THEN "undefined" ELSE p.id

PrayerEntries(ids) ==
  { LegacyPrayer(s) : s \in ids } \cup
  { PrayerStatus(id, type, "old") : id \in ids, type \in PrayerTypes }

PrayerLists == SeqsUpTo(PrayerEntries(PrayerIds), MaxPrayers)

RECURSIVE UniquePrayers_KeepsLast(_, _, _)
UniquePrayers_KeepsLast(list, map, now) ==
  IF list = << >>
    THEN map
    ELSE LET p == Head(list)
             q == IF IsString(p) THEN PrayerStatus(p.id, "alone", now) ELSE p
             has == \E i \in 1..Len(map) : map[i].id = p.id
         IN IF has
              THEN UniquePrayers_KeepsLast(Tail(list),
                     [ i \in 1..Len(map) |-> IF map[i].id = p.id THEN q ELSE map[i] ], now)
              ELSE UniquePrayers_KeepsLast(Tail(list), Append(map, q), now)

RECURSIVE UniquePrayers(_, _, _)
\* The forEach of the cleanup effect: uniquePrayers is a Map keyed by id,
\* kept here as the sequence of its values in the order of insertion.
UniquePrayers(list, map, now) ==
  IF list = << >>
    THEN map
    ELSE LET p == Head(list)
             has == \E i \in 1..Len(map) : map[i].id = p.id
         IN IF has
              THEN UniquePrayers(Tail(list), map, now)
              ELSE UniquePrayers(Tail(list),
                                 Append(map, IF IsString(p)
                                               THEN PrayerStatus(p.id, "alone", now)
                                               ELSE p),
                                 now)

\* mutant: hasChanges is set for every entry of the list
HasChanges_EveryEntry(list) == Len(list) > 0

\* hasChanges after the forEach.
HasChanges(list) ==
  \E i \in 1..Len(list) :
    LET seen == \E j \in 1..(i - 1) : list[j].id = list[i].id
    IN IF IsString(list[i]) THEN ~seen ELSE seen

\* The cleanup & migration effect: the list it leaves in daily.prayers.
Cleanup(list, now) ==
  LET uniquePrayers == UniquePrayers(list, << >>, now)
  IN IF /\ Len(list) > 0
        /\ \/ HasChanges(list)
           \/ Len(uniquePrayers) # Len(list)
           \/ \E i \in 1..Len(list) : IsString(list[i])
       THEN uniquePrayers
       ELSE list

\* The condition under which the effect calls setDaily with the cleaned list.
WritesBack(list, now) ==
  /\ Len(list) > 0
  /\ \/ HasChanges(list)
     \/ Len(UniquePrayers(list, << >>, now)) # Len(list)
     \/ \E i \in 1..Len(list) : IsString(list[i])

MarkPrayerUpdate_AlwaysPush(list, id, type, now) ==
  Append(list, PrayerStatus(id, type, now))

\* mutant: a change of type also stamps the entry with the time of the change
MarkPrayerUpdate_Restamps(list, id, type, now) ==
  LET found == { i \in 1..Len(list) : IdOf(list[i]) = id }
  IN IF found # { }
       THEN LET existing == list[CHOOSE i \in found : \A j \in found : i <= j]
            IN IF existing.type = type
                 THEN SelectSeq(list, LAMBDA p : IdOf(p) # id)
                 ELSE [ i \in 1..Len(list) |->
                          IF IdOf(list[i]) = id THEN PrayerStatus(id, type, now)
                                                ELSE list[i] ]
       ELSE Append(list, PrayerStatus(id, type, now))

\* The updater of markPrayer(id, type).
MarkPrayerUpdate(list, id, type, now) ==
  LET found == { i \in 1..Len(list) : IdOf(list[i]) = id }
  IN IF found # { }
       THEN LET existing == list[CHOOSE i \in found : \A j \in found : i <= j]
            IN IF existing.type = type
                 THEN SelectSeq(list, LAMBDA p : IdOf(p) # id)
                 ELSE [ i \in 1..Len(list) |->
                          IF IdOf(list[i]) = id THEN [ list[i] EXCEPT !.type = type ]
                                                ELSE list[i] ]
       ELSE Append(list, PrayerStatus(id, type, now))

\* A DailyState, of which the trackers and the prayer list are kept.
DailyOf(k, list) ==
  [ protein |-> [ current |-> 20 * k, goal |-> 140 ],
    hydration |-> [ glasses |-> k, goal |-> 8 ],
    mindfulness |-> [ minutes |-> 10 * k, goal |-> 30 ],
    prayers |-> list ]

\* The stale values handed to onReset: a day of tracker values, or a day
\* with a prayer list as it was stored, legacy entries included.
StaleEntries == { LegacyPrayer("fajr"), PrayerStatus("fajr", "jamat", "old") }

StaleDailies ==
  { DailyOf(k, << >>) : k \in Contents \ { 0 } } \cup
  { DailyOf(0, l) : l \in SeqsUpTo(StaleEntries, MaxStale) \ { << >> } }

RECURSIVE SumDuration(_)
\* dayWorkouts.reduce((acc, w) => acc + w.duration, 0)
SumDuration(ws) == IF ws = << >> THEN 0 ELSE Head(ws).duration + SumDuration(Tail(ws))

RECURSIVE InsertByDate_Ascending(_, _)
InsertByDate_Ascending(x, sorted) ==
  IF sorted = << >>
    THEN << x >>
    ELSE IF LocaleCompare(Head(sorted).date, x.date) <= 0
      THEN << Head(sorted) >> \o InsertByDate_Ascending(x, Tail(sorted))
      ELSE << x >> \o sorted

RECURSIVE InsertByDate(_, _)
\* One step of the stable sort under (a, b) => b.date.localeCompare(a.date).
InsertByDate(x, sorted) ==
  IF sorted = << >>
    THEN << x >>
    ELSE IF LocaleCompare(x.date, Head(sorted).date) <= 0
      THEN << Head(sorted) >> \o InsertByDate(x, Tail(sorted))
      ELSE << x >> \o sorted

RECURSIVE SortByDate(_)
\* [...].sort((a, b) => b.date.localeCompare(a.date))
SortByDate(list) ==
  IF list = << >>
    THEN << >>
    ELSE InsertByDate(list[Len(list)], SortByDate(SubSeq(list, 1, Len(list) - 1)))

HistoryRecord_MinutesForDuration(staleDaily, staleDate, log) ==
  LET dayWorkouts == SelectSeq(log, LAMBDA w : StartsWith(w.date, staleDate))
  IN [ date |-> staleDate,
       workout |-> [ count |-> Len(dayWorkouts),
                     duration |-> SumDuration(dayWorkouts) \div 60,
                     calories |-> RoundDiv(SumDuration(dayWorkouts) * 10, 60) ],
       nutrition |-> [ protein |-> staleDaily.protein.current,
                       water |-> staleDaily.hydration.glasses ],
       mindfulness |-> [ minutes |-> staleDaily.mindfulness.minutes ],
       prayers |-> [ completed |-> staleDaily.prayers, total |-> 5 ] ]

\* The record saveDailyProgress computes.
HistoryRecord(staleDaily, staleDate, log) ==
  LET dayWorkouts == SelectSeq(log, LAMBDA w : StartsWith(w.date, staleDate))
  IN [ date |-> staleDate,
       workout |-> [ count |-> Len(dayWorkouts),
                     duration |-> SumDuration(dayWorkouts),
                     calories |-> RoundDiv(SumDuration(dayWorkouts) * 10, 60) ],
       nutrition |-> [ protein |-> staleDaily.protein.current,
                       water |-> staleDaily.hydration.glasses ],
       mindfulness |-> [ minutes |-> staleDaily.mindfulness.minutes ],
       prayers |-> [ completed |-> staleDaily.prayers, total |-> 5 ] ]

SetHistory_NoDateCheck(prev, record) == SortByDate(Append(prev, record))

\* The updater given to setHistory.
SetHistory(prev, record) ==
  IF \E i \in 1..Len(prev) : prev[i].date = record.date
    THEN prev
    ELSE SortByDate(Append(prev, record))

\* The application starts with the workout log it finds stored and no
\* history yet.
ArchiveInit ==
  /\ TimerUnused
  /\ ContainerUnused
  /\ history = << >>
  /\ statsHistory \in WorkoutLogs
  /\ prayers = << >>
  /\ cleaned = FALSE

\* saveDailyProgress(staleDaily, staleDate), called by the daily container.
SaveDailyProgress(staleDaily, staleDate) ==
  /\ history' = SetHistory(history, HistoryRecord(staleDaily, staleDate, statsHistory))
  /\ UNCHANGED << statsHistory, prayers, cleaned >>

\* resetStats(): the statistics and the history are emptied.
ResetStats ==
  /\ history' = << >>
  /\ statsHistory' = << >>
  /\ UNCHANGED << prayers, cleaned >>

ArchiveNext ==
  \/ (\E staleDaily \in StaleDailies, staleDate \in DateStrings :
        SaveDailyProgress(staleDaily, staleDate)) /\ UNCHANGED << vars, pvars >>
  \/ ResetStats /\ UNCHANGED << vars, pvars >>

ArchiveSpec == ArchiveInit /\ [][ArchiveNext]_<< vars, pvars, avars >>

\* The daily state is mounted with the prayer list found in its envelope;
\* the effects of the first render have not run.
PrayerInit ==
  /\ TimerUnused
  /\ ContainerUnused
  /\ history = << >>
  /\ statsHistory = << >>
  /\ prayers \in PrayerLists
  /\ cleaned = FALSE

\* The cleanup & migration effect of the first render, and the render it
\* asks for.
CleanupEffect ==
  /\ ~cleaned
  /\ prayers' = Cleanup(prayers, "now")
  /\ cleaned' = TRUE
  /\ UNCHANGED << history, statsHistory >>

\* markPrayer(id, type) from a handler of the user, with the cleanup effect
\* of the render that follows.
MarkPrayer(id, type) ==
  /\ cleaned
  /\ prayers' = Cleanup(MarkPrayerUpdate(prayers, id, type, "now"), "now")
  /\ UNCHANGED << history, statsHistory, cleaned >>

\* The daily container sets DEFAULT_DAILY, whose prayer list is empty.
DailyReset ==
  /\ cleaned
  /\ prayers' = << >>
  /\ UNCHANGED << history, statsHistory, cleaned >>

PrayerNext ==
  \/ CleanupEffect /\ UNCHANGED << vars, pvars >>
  \/ (\E id \in PrayerIds, type \in PrayerTypes : MarkPrayer(id, type)) /\ UNCHANGED << vars, pvars >>
  \/ DailyReset /\ UNCHANGED << vars, pvars >>

PrayerSpec == PrayerInit /\ [][PrayerNext]_<< vars, pvars, avars >>

\* ------------------------------------------------------------------ claims
IsPrefix(s, t) == Len(s) <= Len(t) /\ s = SubSeq(t, 1, Len(s))

HasEvent(kind) == \E i \in 1..Len(emitted) : emitted[i].ev = kind

\* the committed render is one in which timeRemaining reached 0 while running
AtBoundary(phase) ==
  /\ state.phase = phase
  /\ state.timeRemaining = 0
  /\ state.isRunning

\* no set of the current exercise and no exercise of the plan is left
LastSetOfLastExercise ==
  /\ state.currentSet >= state.totalSets
  /\ state.currentExerciseIndex >= state.totalExercises - 1

\* a run from start() in IDLE with ticks only, on the plan as given to init
CleanRunOf(plan) == clean /\ base = 0 /\ exercisesRef = plan

\* in such a run the phases notified so far are `phases` up to here, and all
\* of them once the timer rests in COMPLETE
ObservedPhases(phases) ==
  /\ IsPrefix(phaseLog, phases)
  /\ (state.phase = "COMPLETE" /\ ~pending => phaseLog = phases)

\* C1: when timeRemaining reaches 0 while running in WORK (non-empty plan),
\* the boundary evaluation moves to REST with timeRemaining = restTime and
\* nothing else changed, except on the last set of the last exercise, where
\* it moves to COMPLETE with isRunning = FALSE; a plan of one exercise with
\* sets = 1 is notified PREP, WORK, COMPLETE.
C1_WorkBoundary ==
  /\ [][ (RunEffects /\ AtBoundary("WORK") /\ Len(exercisesRef) > 0) =>
           IF LastSetOfLastExercise
           THEN state' = [ state EXCEPT !.phase = "COMPLETE", !.isRunning = FALSE ]
           ELSE state' = [ state EXCEPT !.phase = "REST",
                                        !.timeRemaining = state.restTime ] ]_vars
  /\ [](\A e \in Exercise :
          (e.sets = 1 /\ CleanRunOf(<< e >>)) =>
            ObservedPhases(<< "PREP", "WORK", "COMPLETE" >>))

C1_Witness ==
  /\ clean /\ Len(exercisesRef) = 1 /\ exercisesRef[1].sets = 1
  /\ state.phase = "COMPLETE" /\ ~pending
  /\ phaseLog = << "PREP", "WORK", "COMPLETE" >>

\* C2 as stated: a single exercise with sets = 2 is notified
\* PREP, WORK, REST, WORK, REST, COMPLETE.
C2_Original ==
  \A e \in Exercise :
    (e.sets = 2 /\ CleanRunOf(<< e >>)) =>
      ObservedPhases(<< "PREP", "WORK", "REST", "WORK", "REST", "COMPLETE" >>)

\* C2 amended: a single exercise with sets = 2, started from IDLE and ticked
\* without interruption, is notified exactly PREP, WORK, REST, WORK, COMPLETE:
\* the second WORK is the last set of the last exercise and has no REST.
C2_PhaseOrder ==
  \A e \in Exercise :
    (e.sets = 2 /\ CleanRunOf(<< e >>)) =>
      ObservedPhases(<< "PREP", "WORK", "REST", "WORK", "COMPLETE" >>)

C2_Witness ==
  /\ clean /\ Len(exercisesRef) = 1 /\ exercisesRef[1].sets = 2
  /\ state.phase = "COMPLETE" /\ ~pending
  /\ phaseLog = << "PREP", "WORK", "REST", "WORK", "COMPLETE" >>

\* C3: when timeRemaining reaches 0 while running in REST with currentSet =
\* totalSets and another exercise left, the boundary evaluation loads the next
\* exercise: PREP, PREP_TIME, set 1, index + 1, the sets/work/rest of the
\* exercise at the new index, running; two exercises of sets = 1 are notified
\* PREP, WORK, REST, PREP, WORK, COMPLETE.
C3_NextExercise ==
  /\ [][ ( /\ RunEffects
           /\ AtBoundary("REST")
           /\ state.currentSet = state.totalSets
           /\ state.currentExerciseIndex < state.totalExercises - 1 ) =>
           LET next == exercisesRef[state.currentExerciseIndex + 2]
           IN /\ state'.phase = "PREP"
              /\ state'.timeRemaining = PREP_TIME
              /\ state'.currentSet = 1
              /\ state'.currentExerciseIndex = state.currentExerciseIndex + 1
              /\ state'.totalSets = next.sets
              /\ state'.workTime = next.work
              /\ state'.restTime = next.rest
              /\ state'.isRunning ]_vars
  /\ [](\A e1, e2 \in Exercise :
          (e1.sets = 1 /\ e2.sets = 1 /\ CleanRunOf(<< e1, e2 >>)) =>
            ObservedPhases(<< "PREP", "WORK", "REST", "PREP", "WORK", "COMPLETE" >>))

C3_Witness ==
  /\ clean /\ pending
  /\ state.phase = "PREP" /\ state.currentExerciseIndex = 1
  /\ HasEvent("exerciseComplete")

\* C4: when timeRemaining reaches 0 while running in REST with currentSet <
\* totalSets, the boundary evaluation moves to WORK with currentSet + 1 and
\* timeRemaining = workTime and changes nothing else.
C4_NextSet ==
  [][ (RunEffects /\ AtBoundary("REST") /\ state.currentSet < state.totalSets) =>
        state' = [ state EXCEPT !.phase = "WORK",
                                !.currentSet = state.currentSet + 1,
                                !.timeRemaining = state.workTime ] ]_vars

C4_Witness ==
  /\ clean /\ pending
  /\ state.phase = "WORK" /\ state.currentSet = 2
  /\ state.timeRemaining = state.workTime
  /\ prevPhaseRef = "REST"

\* C5: with a non-empty plan, start() in IDLE gives PREP, PREP_TIME, running
\* and changes no other field; after exactly PREP_TIME uninterrupted ticks
\* (and the evaluation of that boundary) the phase is WORK with timeRemaining
\* = workTime of the plan's first exercise, whatever its sets and the number
\* of exercises.
C5_StartAndPrep ==
  /\ [][ (DoStart /\ state.phase = "IDLE" /\ Len(exercisesRef) > 0) =>
           state' = [ state EXCEPT !.phase = "PREP",
                                   !.timeRemaining = PREP_TIME,
                                   !.isRunning = TRUE ] ]_vars
  /\ []( (clean /\ ticks = PREP_TIME /\ ~pending /\ Len(exercisesRef) > 0) =>
           /\ state.phase = "WORK"
           /\ state.timeRemaining = state.workTime
           /\ state.workTime = exercisesRef[base + 1].work )

C5_Witness ==
  /\ clean /\ ticks = PREP_TIME /\ ~pending
  /\ Len(exercisesRef) = MaxLen /\ base = 0
  /\ state.phase = "WORK" /\ state.timeRemaining = exercisesRef[1].work

\* C6: timeRemaining is never negative; a tick at timeRemaining > 0 (running)
\* decreases it by exactly 1 and a tick at 0 leaves it at 0.
C6_Countdown ==
  /\ [](state.timeRemaining >= 0)
  /\ [][ (Tick /\ state.isRunning /\ state.timeRemaining > 0) =>
           state'.timeRemaining = state.timeRemaining - 1 ]_vars
  /\ [][ (Tick /\ state.timeRemaining = 0) => state'.timeRemaining = 0 ]_vars

\* a tick was applied at timeRemaining = 0: only a tick leaves IDLE pending
C6_Witness ==
  /\ pending /\ state.phase = "IDLE"
  /\ state.isRunning /\ state.timeRemaining = 0
  /\ Len(exercisesRef) > 0

\* C7 as stated: isRunning is false whenever phase is IDLE or COMPLETE.
C7_IdleCompleteNotRunning ==
  state.phase \in { "IDLE", "COMPLETE" } => ~state.isRunning

\* C8 as stated: with an empty plan the timer stays IDLE, never runs and never
\* signals workout-completed.
C8_EmptyPlanStaysIdle ==
  exercisesRef = << >> =>
    /\ state.phase = "IDLE"
    /\ ~state.isRunning
    /\ ~HasEvent("workoutComplete")

\* C8, the last part alone: with an empty plan workout-completed is never
\* signalled.
C8_EmptyPlanNeverCompletes ==
  exercisesRef = << >> => ~HasEvent("workoutComplete")

\* C9 as stated: after setExercise(i), start() and uninterrupted ticks, the
\* exercise being timed is exercises[i + currentExerciseIndex] of the plan and
\* the timer completes on the plan's last exercise.
C9_TimesPlanFromIndex ==
  (clean /\ state.phase # "IDLE" /\ Len(exercisesRef) > 0) =>
    LET k == base + state.currentExerciseIndex + 1
    IN /\ k <= Len(exercisesRef)
       /\ state.totalSets = exercisesRef[k].sets
       /\ state.workTime = exercisesRef[k].work
       /\ state.restTime = exercisesRef[k].rest
       /\ (state.phase = "COMPLETE" => k = Len(exercisesRef))

\* C10: setExercise(index) with index < 0 or index >= plan length changes no
\* field of the timer state, starts no render and emits no notification.
C10_OutOfRangeRejected ==
  [][ \A index \in -1..MaxLen :
        ((index < 0 \/ index >= Len(exercisesRef)) /\ SetExercise(index)) =>
          /\ state' = state
          /\ pending' = pending
          /\ intervalRef' = intervalRef
          /\ prevPhaseRef' = prevPhaseRef
          /\ exercisesRef' = exercisesRef
          /\ emitted' = << >> ]_vars

\* a running timer at rest whose last step notified nothing: every accepted
\* operation and every flush on a running state notifies a tick, so the last
\* step was a rejected setExercise
C10_Witness ==
  /\ state.isRunning /\ ~pending /\ emitted = << >>
  /\ state.phase = "WORK" /\ Len(exercisesRef) > 0

\* C11: a TICK delivered while isRunning is false, in any phase, changes no
\* field of the timer state, and the state it leaves has no phase boundary to
\* evaluate; so any number of ticks while paused changes nothing.
C11_TickWhilePaused ==
  [][ (DispatchTICK /\ ~state.isRunning) =>
        /\ state' = state
        /\ TransitionEffect(state', exercisesRef) = NoEffect ]_vars

\* paused at timeRemaining = 0 in WORK, and more than PREP_TIME ticks were
\* delivered since the pause
C11_Witness ==
  /\ ~state.isRunning /\ ticks = PREP_TIME + 1
  /\ state.phase = "WORK" /\ state.timeRemaining = 0
  /\ Len(exercisesRef) > 0

\* C12 as stated: pause() changes only isRunning (to false) and resume()
\* changes only isRunning (to true), so pause() followed at once by resume()
\* leaves every other field as it was before the pause.
C12_PauseResumeNeutral ==
  /\ [][ Pause => state' = [ state EXCEPT !.isRunning = FALSE ] ]_vars
  /\ [][ Resume => state' = [ state EXCEPT !.isRunning = TRUE ] ]_vars

\* C12 where no boundary evaluation is outstanding: it holds there
C12_NeutralAtRest ==
  /\ [][ (Pause /\ ~pending) => state' = [ state EXCEPT !.isRunning = FALSE ] ]_vars
  /\ [][ (Resume /\ ~(state.timeRemaining = 0 /\ state.phase \in { "PREP", "WORK", "REST" })) =>
           state' = [ state EXCEPT !.isRunning = TRUE ] ]_vars

\* C13 as stated: once phase is COMPLETE, no start, pause, resume, toggle or
\* tick (nor the effects of a render) changes phase away from COMPLETE.
C13_CompleteIsTerminal ==
  [][ (state.phase = "COMPLETE" /\ (Start \/ Pause \/ Resume \/ Toggle \/ Tick \/ RunEffects)) =>
        state'.phase = "COMPLETE" ]_vars

\* C13 without start(): pause, resume, toggle and ticks keep COMPLETE
C13_CompleteKeptWithoutStart ==
  [][ (state.phase = "COMPLETE" /\ ~pending /\ (Pause \/ Resume \/ Toggle \/ Tick \/ RunEffects)) =>
        state'.phase = "COMPLETE" ]_vars

\* the state init gives for a non-empty plan
Loaded(plan) ==
  [ phase |-> "IDLE", timeRemaining |-> PREP_TIME, currentSet |-> 1,
    totalSets |-> plan[1].sets, currentExerciseIndex |-> 0,
    totalExercises |-> Len(plan), workTime |-> plan[1].work,
    restTime |-> plan[1].rest, isRunning |-> FALSE ]

\* C14 as stated: reset() from any timer state of a non-empty plan gives IDLE,
\* not running, exercise 0, set 1, PREP_TIME, totalExercises = length of the
\* full plan and the sets/work/rest of the plan's first exercise.
C14_ResetReloadsPlan ==
  [][ (Len(exercisesRef) > 0 /\ Reset) => state' = Loaded(exercisesRef) ]_vars

\* C14 where no boundary evaluation is outstanding: it holds there, also after
\* setExercise and in mid-session
C14_ResetAtRest ==
  [][ (Len(exercisesRef) > 0 /\ ~pending /\ Reset) => state' = Loaded(exercisesRef) ]_vars

\* C15: in every timer state toggle() does what start() does when phase is
\* IDLE, what pause() does when phase is not IDLE and isRunning is true, and
\* what resume() does otherwise.
C15_ToggleEquivalence ==
  [][ Toggle =>
        IF state.phase = "IDLE" THEN Start
        ELSE IF state.isRunning THEN Pause
        ELSE Resume ]_vars

\* the last step left IDLE for PREP: start(), or toggle() in IDLE
C15_Witness ==
  /\ state.phase = "PREP" /\ state.isRunning /\ ~pending
  /\ state.timeRemaining = PREP_TIME
  /\ emitted = << PhaseChangeEv("PREP", "IDLE"), TickEv(PREP_TIME, "PREP") >>
  /\ clean /\ Len(exercisesRef) > 0

IsCompleteEv(e) == e.ev \in { "exerciseComplete", "workoutComplete" }

StaleLoadDone(st, log, live) ==
  /\ log = << ResetCall(st[1].value, st[1].date, "load") >>
  /\ live = DefaultValue

C18_StaleLoad ==
  /\ (resetAtMidnight /\ IsStale(stored, today)) => StaleLoadDone(stored, onResetLog, liveValue)
  /\ [][ (resetAtMidnight /\ IsStale(stored, today) /\ Reload) =>
           (StaleLoadDone(stored, onResetLog', liveValue') /\ dirty') ]_pvars
  /\ [][ (/\ ~subscribed
          /\ onResetLog # << >>
          /\ onResetLog[1].by = "load"
          /\ PersistEffect) =>
           stored' = << [ date |-> today, value |-> 0 ] >> ]_pvars

\* A stale envelope with a content of its own was loaded, archived once by
\* the load, and replaced by today's envelope of the default.
C18_Witness ==
  /\ subscribed /\ ~dirty
  /\ Len(onResetLog) = 1
  /\ onResetLog[1].by = "load"
  /\ onResetLog[1].value # 0
  /\ onResetLog[1].date < today
  /\ liveValue = DefaultValue
  /\ stored = << [ date |-> today, value |-> 0 ] >>

\* C19: across a change of day the archival loses nothing: in a day-boundary
\* container whose onReset does not throw, an envelope never carries a value
\* with content of its own under a date later than the day that value
\* belongs to, whatever the order of mutations, writes and checks.
C19_NeverRestamped ==
  (/\ resetAtMidnight
   /\ ~onResetThrows
   /\ stored # << >>
   /\ Parseable(stored[1])
   /\ stored[1].value # 0) =>
    stored[1].date <= liveOf

\* What the code does give: a check that finds the envelope stale hands the
\* envelope's value and date to onReset and leaves the default as the live
\* value.
C19_RolledOverWhenChecked ==
  [][ (/\ IsStale(stored, today)
       /\ ~onResetThrows
       /\ Len(onResetLog) < MaxRolls
       /\ (IntervalCheck \/ HandleVisibility(TRUE))) =>
        /\ Len(onResetLog') = Len(onResetLog) + 1
        /\ onResetLog'[Len(onResetLog')].value = stored[1].value
        /\ onResetLog'[Len(onResetLog')].date = stored[1].date
        /\ liveValue' = DefaultValue ]_pvars

\* C20: onReset fires at most once per stale transition: when the interval
\* check and the visibility check both fire for the same change of day, in
\* any order with the re-render and the write, only one of them calls
\* onReset; no stale date is handed to onReset by both.
C20_OneCheckRollsOver ==
  ~onResetThrows =>
    \A i, j \in 1..Len(onResetLog) :
      (onResetLog[i].by = "interval" /\ onResetLog[j].by = "visibility") =>
        onResetLog[i].date # onResetLog[j].date

\* What the code does give: once the effects of the re-render have written,
\* the envelope carries today's date and a check finds nothing stale.
C20_FreshAfterWrite ==
  [][ PersistEffect => ~IsStale(stored', today') ]_pvars

\* C21: when onReset throws, the reset still takes place on both paths:
\* after a stale load and after a check that found the envelope stale, the
\* live value is the default and not the stale value.
C21_ResetDespiteThrow ==
  /\ (onResetThrows /\ resetAtMidnight /\ IsStale(stored, today)) => liveValue = DefaultValue
  /\ [][ (onResetThrows /\ resetAtMidnight /\ IsStale(stored, today) /\ Reload) =>
           liveValue' = DefaultValue ]_pvars
  /\ [][ (onResetThrows /\ IsStale(stored, today)
            /\ (IntervalCheck \/ HandleVisibility(TRUE))) =>
           liveValue' = DefaultValue ]_pvars

\* What the code does give: the load resets although onReset throws, and a
\* check whose onReset throws changes nothing but the log of calls.
C21_LoadResetsDespiteThrow ==
  /\ (onResetThrows /\ resetAtMidnight /\ IsStale(stored, today)) => liveValue = DefaultValue
  /\ [][ (onResetThrows /\ resetAtMidnight /\ IsStale(stored, today) /\ Reload) =>
           liveValue' = DefaultValue ]_pvars
  /\ [][ (onResetThrows /\ IsStale(stored, today)
            /\ (IntervalCheck \/ HandleVisibility(TRUE))) =>
           UNCHANGED << stored, liveValue, dirty >> ]_pvars

OneRecordPerDate(list) ==
  \A i, j \in 1..Len(list) : i # j => list[i].date # list[j].date

HasRecordFor(list, date) == \E i \in 1..Len(list) : list[i].date = date

\* C22: after any sequence of rollovers the history holds at most one record
\* per date, and a rollover for a date that has a record already, with the
\* same or with another stale value, leaves the history as it was.
C22_OneRecordPerDate ==
  /\ OneRecordPerDate(history)
  /\ [][ OneRecordPerDate(history') ]_avars
  /\ [][ \A staleDate \in DateStrings :
           HasRecordFor(history, staleDate) =>
             \A staleDaily \in StaleDailies :
               SaveDailyProgress(staleDaily, staleDate) => history' = history ]_avars

\* Every date has its record, so every further rollover meets one, and the
\* records kept are of more than one stale value.
C22_Witness ==
  /\ \A date \in DateStrings : HasRecordFor(history, date)
  /\ \E i, j \in 1..Len(history) : history[i].nutrition # history[j].nutrition

\* C23: the prayers.completed list of every record the archiver makes is
\* normalized and deduplicated, no bare string and no id twice, also when
\* the stale daily state holds legacy strings or duplicates; and
\* prayers.total is 5.
C23_RecordsNormalized ==
  \A i \in 1..Len(history) :
    LET completed == history[i].prayers.completed
    IN /\ \A j \in 1..Len(completed) : ~IsString(completed[j])
       /\ \A j, k \in 1..Len(completed) : j # k => completed[j].id # completed[k].id
       /\ history[i].prayers.total = 5

\* What the code does give: the record carries the stale list as it is, and
\* the total 5.
C23_RecordsKeepStaleList ==
  [][ \A staleDate \in DateStrings :
        ~HasRecordFor(history, staleDate) =>
          \A staleDaily \in StaleDailies :
            SaveDailyProgress(staleDaily, staleDate) =>
              \E i \in 1..Len(history') :
                /\ history'[i].date = staleDate
                /\ history'[i].prayers = [ completed |-> staleDaily.prayers, total |-> 5 ] ]_avars

\* C24: after a rollover the live daily state is the default for the new
\* day and its date field is today's date, when the rollover is made by the
\* load after reopening and when it is made by a check in a page that stayed
\* open across midnight.
C24_DefaultOfToday ==
  /\ (resetAtMidnight /\ IsStale(stored, today)) =>
       (liveValue = DefaultValue /\ defaultDate = today)
  /\ [][ (resetAtMidnight /\ IsStale(stored, today) /\ Reload) =>
           (liveValue' = DefaultValue /\ defaultDate' = today') ]_pvars
  /\ [][ (IsStale(stored, today) /\ ~onResetThrows
            /\ (IntervalCheck \/ HandleVisibility(TRUE))) =>
           (liveValue' = DefaultValue /\ defaultDate' = today') ]_pvars

\* What the code does give: the load leaves the default dated today, a
\* check leaves the default with the date it was made with.
C24_DefaultOfLoadDay ==
  /\ (resetAtMidnight /\ IsStale(stored, today)) =>
       (liveValue = DefaultValue /\ defaultDate = today)
  /\ [][ (resetAtMidnight /\ IsStale(stored, today) /\ Reload) =>
           (liveValue' = DefaultValue /\ defaultDate' = today') ]_pvars
  /\ [][ (IsStale(stored, today) /\ ~onResetThrows
            /\ (IntervalCheck \/ HandleVisibility(TRUE))) =>
           (liveValue' = DefaultValue /\ defaultDate' = defaultDate) ]_pvars

\* The first place of an id in a list, a bare string counting by its text.
FirstIndex(list, id) ==
  CHOOSE i \in 1..Len(list) : list[i].id = id /\ \A j \in 1..(i - 1) : list[j].id # id

Normalized(p) == IF IsString(p) THEN PrayerStatus(p.id, "alone", "now") ELSE p

\* C25: the normalization turns each bare string s into {id: s, type:
\* 'alone', completedAt: now}, keeps for each id the first entry of the list
\* and no other, and keeps the order of the first occurrences; the string
\* "fajr" with an object of id "fajr" gives one entry, the one that came
\* first.
C25_Normalization ==
  [][ CleanupEffect =>
        /\ \A i \in 1..Len(prayers) : \E k \in 1..Len(prayers') : prayers'[k].id = prayers[i].id
        /\ \A k \in 1..Len(prayers') :
             /\ ~IsString(prayers'[k])
             /\ \E i \in 1..Len(prayers) : prayers[i].id = prayers'[k].id
             /\ prayers'[k] = Normalized(prayers[FirstIndex(prayers, prayers'[k].id)])
        /\ \A k, m \in 1..Len(prayers') :
             k < m => FirstIndex(prayers, prayers'[k].id) < FirstIndex(prayers, prayers'[m].id) ]_avars

\* A list with an entry for "asr" followed by the bare string "fajr", alone
\* or with further entries for "fajr", has been normalized: "asr" first,
\* then the one entry made of the string.
C25_Witness ==
  /\ cleaned
  /\ Len(prayers) = 2
  /\ prayers[1].id = "asr"
  /\ prayers[2] = PrayerStatus("fajr", "alone", "now")

\* A list of PrayerStatus objects with no id twice.
OnePerId(list) ==
  /\ \A i \in 1..Len(list) : ~IsString(list[i])
  /\ \A i, j \in 1..Len(list) : i # j => list[i].id # list[j].id

\* C26: the live daily state holds at most one PrayerStatus per id: once
\* the normalization has run, whatever the stored list was, the list has one
\* entry per id and keeps it under every sequence of markPrayer(id, type);
\* and markPrayer applied to a deduplicated list gives a deduplicated list.
C26_OnePrayerPerId ==
  /\ cleaned => OnePerId(prayers)
  /\ OnePerId(prayers) =>
       \A id \in PrayerIds, type \in PrayerTypes :
         OnePerId(MarkPrayerUpdate(prayers, id, type, "now"))

\* markPrayer has acted after the normalization: the list of two holds an
\* entry of type 'jamat' completed now, which only markPrayer makes.
C26_Witness ==
  /\ cleaned
  /\ Len(prayers) = 2
  /\ \E i \in 1..2 : prayers[i] = PrayerStatus("asr", "jamat", "now")

\* C27: every mutation of a container's value is persisted as the envelope
\* {date: the date of the write, value: the new live value}, which replaces
\* the envelope of the key: after the write that follows a mutation, and
\* whenever no write is owed, the stored value is the live value, and a
\* write stores the date it is made on.
C27_MutationsPersisted ==
  /\ [][ (PersistEffect \/ (liveValue' # liveValue /\ ~dirty')) =>
           stored' = << [ date |-> today', value |-> liveValue'.v ] >> ]_pvars
  /\ [][ ~dirty' => (stored' # << >> /\ Parse(stored'[1].value).v = liveValue'.v) ]_pvars

\* A value set after a change of day has been written over the envelope of
\* the day before.
C27_Witness ==
  /\ ~dirty
  /\ today > 1
  /\ liveValue.v # 0
  /\ liveOf < today
  /\ stored = << [ date |-> today, value |-> liveValue.v ] >>

\* What C28 says of a load: st is what was stored, live and log are the
\* value and the calls of onReset after it.
LoadedAsStored(st, day, ram, live, log) ==
  /\ (st = << >> \/ ~Parseable(st[1])) => (live = DefaultValue /\ log = << >>)
  /\ (st # << >> /\ Parseable(st[1]) /\ (~ram \/ st[1].date = day)) =>
       (live = Parse(st[1].value) /\ log = << >>)

\* C28: loading never fails: with nothing stored or a text that cannot be
\* parsed the live value is the default and onReset is not called; with a
\* parseable envelope and either no midnight reset or today's date the live
\* value is the stored value and onReset is not called.
C28_LoadNeverFails ==
  /\ LoadedAsStored(stored, today, resetAtMidnight, liveValue, onResetLog)
  /\ [][ Reload =>
           LoadedAsStored(stored, today, resetAtMidnight, liveValue', onResetLog') ]_pvars

\* A container without midnight reset has just loaded, as it was stored, a
\* value with content from an envelope of an earlier day.
C28_Witness ==
  /\ ~resetAtMidnight
  /\ dirty /\ ~subscribed
  /\ IsStale(stored, today)
  /\ stored[1].value # 0
  /\ liveValue = Parse(stored[1].value)
  /\ onResetLog = << >>

\* C29: after any sequence of rollover insertions, starting from a history
\* sorted by date descending, the history is sorted by date strictly
\* descending.
C29_HistorySorted ==
  \A i, j \in 1..Len(history) :
    i < j => LocaleCompare(history[i].date, history[j].date) > 0

\* Records of all the dates have been inserted, in some order; the dates
\* pass from "09" to "10".
C29_Witness ==
  /\ Len(history) = MaxDay
  /\ history[1].date = ToISODate(MaxDay)
  /\ history[MaxDay].date = ToISODate(1)
  /\ history[MaxDay].date[1] < history[1].date[1]

RECURSIVE SecondsOn(_, _, _)
\* The seconds of the first n entries of a workout log that fall on a date.
SecondsOn(log, date, n) ==
  IF n = 0
    THEN 0
    ELSE SecondsOn(log, date, n - 1)
           + (IF SubSeq(log[n].date, 1, Len(date)) = date THEN log[n].duration ELSE 0)

C31_ManualReset ==
  [][ ManualReset => (liveValue' = DefaultValue /\ onResetLog' = onResetLog) ]_pvars

\* In a page opened on an earlier day the default has been written under
\* today's date while onReset has not been called since the load, as after
\* reset() on a value of the day before.
C31_Witness ==
  /\ resetAtMidnight
  /\ defaultDate < today
  /\ onResetLog = << >>
  /\ ~dirty
  /\ liveValue = DefaultValue
  /\ liveOf = today
  /\ stored = << [ date |-> today, value |-> 0 ] >>

\* the committed state is running with timeRemaining 0 in a timed phase: its
\* boundary evaluation has not been applied yet
BoundaryState ==
  /\ state.isRunning
  /\ state.timeRemaining = 0
  /\ state.phase \in { "PREP", "WORK", "REST" }

\* a handler of the user: pause, resume, start, toggle, reset or setExercise
UserAction ==
  Start \/ Pause \/ Resume \/ Toggle \/ Reset \/ \E index \in 0..MaxLen : SetExercise(index)

\* C32 as stated: the tick and the phase transition it causes are atomic; a
\* running state with timeRemaining 0 in PREP, WORK or REST is never the state
\* a tick or a handler of the user is applied to.
C32_TickAndTransitionAtomic ==
  [][ BoundaryState => ~(Tick \/ UserAction) ]_vars

\* C32 for the tick alone: the interval's TICK is never applied to such a state
C32_NoTickAtBoundary ==
  [][ BoundaryState => ~Tick ]_vars

\* such a state exists only between a tick's commit and its effects
C32_BoundaryIsPending ==
  BoundaryState => pending

\* the notifications of one kind among those of a step, in the order fired
EventsOf(kind, events) == SelectSeq(events, LAMBDA e : e.ev = kind)

\* a step of a session: a tick, the effects of a render, pause, resume, toggle
SessionStep == Tick \/ RunEffects \/ Pause \/ Resume \/ Toggle

\* C33: in a session from start() to COMPLETE without reset or setExercise,
\* workout-completed is emitted exactly once, at the transition into COMPLETE;
\* exercise-completed is emitted exactly once for every exercise but the last,
\* with the index of the exercise just finished, in increasing order; pause,
\* resume, toggle and ticks after COMPLETE emit neither again.  Step by step:
\* the exercise index never decreases, every advance of it comes with exactly
\* the exercise-completed of the indices left, COMPLETE is entered on the last
\* exercise with exactly one workout-completed, and is not left.  The plan is
\* not empty.
C33_CompletionEvents ==
  [][ (Len(exercisesRef) > 0 /\ SessionStep) =>
        LET from == state.currentExerciseIndex
            to == state'.currentExerciseIndex
            enters == state.phase # "COMPLETE" /\ state'.phase = "COMPLETE"
        IN /\ to >= from
           /\ EventsOf("exerciseComplete", emitted') =
                [ k \in 1..(to - from) |-> ExerciseCompleteEv(from + k - 1) ]
           /\ Len(EventsOf("workoutComplete", emitted')) = IF enters THEN 1 ELSE 0
           /\ (enters => to = state'.totalExercises - 1)
           /\ (state.phase = "COMPLETE" => state'.phase = "COMPLETE") ]_vars

\* a session of two exercises has just completed: workout-completed is fired
\* on the second exercise, after exercise-completed of the first
C33_Witness ==
  /\ clean
  /\ Len(exercisesRef) = 2
  /\ state.phase = "COMPLETE"
  /\ state.currentExerciseIndex = 1
  /\ Len(EventsOf("workoutComplete", emitted)) = 1

\* C34: the prayer normalization ends: when it changes nothing it writes
\* nothing back; when it changes something the corrected list is written
\* once, and normalizing the list it leaves changes nothing and writes
\* nothing, also after every markPrayer that follows.
C34_NormalizationFixedPoint ==
  /\ [][ CleanupEffect =>
           /\ (UniquePrayers(prayers, << >>, "now") = prayers => ~WritesBack(prayers, "now"))
           /\ (~WritesBack(prayers, "now") => prayers' = prayers)
           /\ (WritesBack(prayers, "now") => prayers' = UniquePrayers(prayers, << >>, "now")) ]_avars
  /\ [][ (CleanupEffect \/ \E id \in PrayerIds, type \in PrayerTypes : MarkPrayer(id, type)) =>
           /\ ~WritesBack(prayers', "now")
           /\ Cleanup(prayers', "now") = prayers'
           /\ UniquePrayers(prayers', << >>, "now") = prayers' ]_avars

\* the normalization has run on a stored list whose first entry is an object
\* for "fajr" and whose other entries, if any, repeat that id: the list left
\* is that one entry
C34_Witness ==
  /\ cleaned
  /\ Len(prayers) = 1
  /\ prayers[1].id = "fajr"
  /\ prayers[1].completedAt = "old"

\* C35 as stated: start() called when phase is not IDLE, as the workout
\* screen's main button does for a paused timer, discards no progress: phase
\* and timeRemaining are left as they were.
C35_StartKeepsProgress ==
  [][ (state.phase # "IDLE" /\ ~state.isRunning /\ Start) =>
        /\ state'.phase = state.phase
        /\ state'.timeRemaining = state.timeRemaining ]_vars

\* what start() does in every phase when no boundary evaluation is
\* outstanding: PREP with the preparation countdown, running; the set and the
\* exercise are kept
C35_StartRestartsPrep ==
  [][ (~pending /\ Start) =>
        state' = [ state EXCEPT !.phase = "PREP", !.timeRemaining = PREP_TIME,
                                !.isRunning = TRUE ] ]_vars

\* C36: for every non-empty plan (sets >= 1, work >= 1, rest >= 0), after
\* start(), with the ticks delivered and no pause, reset or setExercise, the
\* timer eventually reaches COMPLETE; a rest of 0 does not leave it in REST.
C36_SessionCompletes ==
  (Len(exercisesRef) > 0 /\ state.phase # "IDLE") ~> (state.phase = "COMPLETE")

\* a plan with an exercise of two sets and a rest of 0 has run to COMPLETE
C36_Witness ==
  /\ clean
  /\ state.phase = "COMPLETE"
  /\ ~pending
  /\ \E i \in 1..Len(exercisesRef) : exercisesRef[i].sets = 2 /\ exercisesRef[i].rest = 0

\* C37: in every reachable state of a non-empty plan the counters are in
\* range: 1 <= currentSet <= totalSets and
\* 0 <= currentExerciseIndex < totalExercises.
C37_CountersInRange ==
  Len(exercisesRef) > 0 =>
    /\ 1 <= state.currentSet
    /\ state.currentSet <= state.totalSets
    /\ 0 <= state.currentExerciseIndex
    /\ state.currentExerciseIndex < state.totalExercises

\* the plan is empty or the counters are in range
CountersOk ==
  Len(exercisesRef) > 0 =>
    /\ 1 <= state.currentSet /\ state.currentSet <= state.totalSets
    /\ 0 <= state.currentExerciseIndex /\ state.currentExerciseIndex < state.totalExercises

\* C37 step by step: the ticks, the effects of a render, and every handler
\* called while no boundary evaluation is outstanding keep the counters in
\* range
C37_RangeKeptAtRest ==
  [][ (CountersOk /\ (~pending \/ RunEffects)) => CountersOk' ]_vars

\* the snapshot's currentExercise, exercisesRef.current[currentExerciseIndex];
\* it is null when the index is outside the plan
HasCurrentExercise == InRange(state.currentExerciseIndex, exercisesRef)

currentExercise == exercisesRef[state.currentExerciseIndex + 1]

\* the durations being timed are those of the snapshot's currentExercise
SnapshotConsistent ==
  /\ HasCurrentExercise
  /\ state.totalSets = currentExercise.sets
  /\ state.workTime = currentExercise.work
  /\ state.restTime = currentExercise.rest

\* C38 as stated: in every reachable state of a non-empty plan, also after
\* setExercise, totalSets, workTime and restTime of the state are sets, work
\* and rest of currentExercise = exercises[currentExerciseIndex].
C38_SnapshotConsistent ==
  Len(exercisesRef) > 0 => SnapshotConsistent

\* C38 for a plan timed from its first exercise (no setExercise to a later
\* one since init or reset): it holds there
C38_ConsistentFromFirst ==
  (Len(exercisesRef) > 0 /\ base = 0) => SnapshotConsistent

\* the entries of a list whose id is not `id`, in order
OtherThan(list, id) == SelectSeq(list, LAMBDA p : p.id # id)

\* C39: on a deduplicated list markPrayer(id, type) appends {id, type, now}
\* when the id is absent, removes the entry when it has that type, and
\* changes only its type when it has the other type; the entries of the other
\* ids are never changed; and on a list without the id, marking twice with
\* the same type gives the list back.
C39_MarkPrayer ==
  OnePerId(prayers) =>
    \A id \in PrayerIds, type \in PrayerTypes :
      LET new == MarkPrayerUpdate(prayers, id, type, "now")
          at == { i \in 1..Len(prayers) : prayers[i].id = id }
      IN /\ OtherThan(new, id) = OtherThan(prayers, id)
         /\ at = { } =>
              /\ new = Append(prayers, PrayerStatus(id, type, "now"))
              /\ MarkPrayerUpdate(new, id, type, "now") = prayers
         /\ \A i \in at :
              IF prayers[i].type = type
                THEN new = OtherThan(prayers, id)
                ELSE new = [ prayers EXCEPT ![i].type = type ]

\* markPrayer("fajr", 'jamat') has acted on a list that held the entry of
\* "asr": the entry is appended, the one of "asr" is as it was
C39_Witness ==
  /\ cleaned
  /\ prayers = << PrayerStatus("asr", "alone", "old"), PrayerStatus("fajr", "jamat", "now") >>

\* a container made by useSimplePersistedState: resetAtMidnight is false
NonDaily == ~resetAtMidnight

\* the envelope holds a value, of whatever date
HoldsValue(st) == st # << >> /\ Parseable(st[1])

\* C40: a container without day-boundary semantics is not affected by a
\* change of the calendar day: loading it on a later date gives the stored
\* value and calls nothing; no interval and no visibility listener is
\* installed, so no check resets it or calls back; its value changes only
\* through setState, reset() and a load, and what is written is its value.
C40_NonDailyUnaffected ==
  /\ NonDaily => (onResetLog = << >> /\ ~subscribed)
  /\ (NonDaily /\ HoldsValue(stored)) => liveValue = Parse(stored[1].value)
  /\ [][ NonDaily =>
           /\ onResetLog' = << >>
           /\ ~subscribed'
           /\ ~(IntervalCheck \/ \E visible \in BOOLEAN : HandleVisibility(visible))
           /\ (Reload /\ HoldsValue(stored)) => liveValue' = Parse(stored[1].value)
           /\ liveValue' # liveValue =>
                (ManualReset \/ Reload \/ \E c \in Contents \ { 0 } : SetState(c))
           /\ stored' # stored => stored'[1].value = Stringify(liveValue') ]_pvars

\* such a container has been open across a day change with a value of the
\* day before: the value is live and stored as it was
C40_Witness ==
  /\ NonDaily
  /\ ~dirty
  /\ defaultDate < today
  /\ IsStale(stored, today)
  /\ stored[1].value # 0
  /\ liveValue = Parse(stored[1].value)

\* C40, the rollover of the daily state: saveDailyProgress writes the history
\* collection only; the workout log of the statistics changes through
\* resetStats alone
C40_RolloverKeepsStats ==
  [][ statsHistory' # statsHistory => ResetStats ]_avars

====
